---- MODULE Spec2Model ----
(***************************************************************************)
(* The scroll container of druid (src/druid/src/widget/scroll.rs): a       *)
(* Scroll owns a ClipBox (child + Viewport) and a ScrollComponent          *)
(* (scrollbars).  Coordinates are f64 in the source; here they are         *)
(* integers in small ranges, which keeps every comparison, min, max and    *)
(* subtraction of the source exact.                                        *)
(*                                                                         *)
(* scroll.rs is the only file under src/.  Viewport, ClipBox and           *)
(* ScrollComponent are called by it but defined elsewhere in the           *)
(* repository; their operators below follow spec.md sections 3, 4.1 and    *)
(* 4.2 and are marked so where they are defined.                           *)
(***************************************************************************)
EXTENDS Integers, FiniteSets, Sequences, TLC

VARIABLES
    phase,                  \* "build": the builder owns the Scroll; "run": it is in the widget tree
    port,                   \* clip.port : Viewport
    constrain_horizontal,   \* clip.constrain_horizontal
    constrain_vertical,     \* clip.constrain_vertical
    must_fill,              \* clip.must_fill
    sc,                     \* scroll_component : ScrollComponent
    timers,                 \* timer tokens requested from the scheduler and not yet fired
    last,                   \* record of the last call made on the widget (observation only)
    trace_inputs            \* whether last keeps the inputs and observations of the call
                            \* (fixed by Init)

vars == << phase, port, constrain_horizontal, constrain_vertical, must_fill, sc,
           timers, last, trace_inputs >>

----------------------------------------------------------------------------
(* Bounds of the model *)

\* largest width of content, of a box constraint, of a target rectangle
MaxWidth == 1
\* largest height of content, of a box constraint, of a target rectangle
MaxHeight == 2
\* largest magnitude of a pan delta on one axis
MaxDelta == 2
\* number of timer tokens that can be pending at once
MaxTimers == 2

----------------------------------------------------------------------------
(* kurbo geometry: Point, Size, Vec2, Rect *)

Min(a, b) == IF a <= b THEN a ELSE b
Max(a, b) == IF a >= b THEN a ELSE b
Abs(a) == IF a < 0 THEN -a ELSE a

Point(x, y) == [x |-> x, y |-> y]
Size(w, h) == [width |-> w, height |-> h]
Vec2(x, y) == [x |-> x, y |-> y]
Rect(x0, y0, x1, y1) == [x0 |-> x0, y0 |-> y0, x1 |-> x1, y1 |-> y1]

Vec2ZERO == Vec2(0, 0)
SizeZERO == Size(0, 0)
PointORIGIN == Point(0, 0)

Widths == 0..MaxWidth
Heights == 0..MaxHeight
Sizes == [width : Widths, height : Heights]
Axes == {"Horizontal", "Vertical"}


----------------------------------------------------------------------------
(* BoxConstraints *)

BoxConstraints(min, max) == [min |-> min, max |-> max]

\* BoxConstraints::constrain: clamp a size into [min, max] on both axes
bc_constrain(bc, size) ==
    Size(Max(bc.min.width, Min(size.width, bc.max.width)),
         Max(bc.min.height, Min(size.height, bc.max.height)))

\* the constraints a parent can pass: min <= max on both axes (bc.debug_check)
AllBoxConstraints ==
    { BoxConstraints(mn, mx) : mn \in Sizes, mx \in Sizes }
ValidBoxConstraints ==
    { bc \in AllBoxConstraints :
        bc.min.width <= bc.max.width /\ bc.min.height <= bc.max.height }

----------------------------------------------------------------------------
(* Viewport (spec.md 3 and 4.1): content_size, view_size, view_origin *)

Viewport(content_size, view_size, view_origin) ==
    [content_size |-> content_size, view_size |-> view_size, view_origin |-> view_origin]

\* Viewport::view_rect: the rectangle at view_origin sized view_size
view_rect(vp) ==
    Rect(vp.view_origin.x, vp.view_origin.y,
         vp.view_origin.x + vp.view_size.width,
         vp.view_origin.y + vp.view_size.height)

\* one axis of the clamp: 0 <= origin <= max(0, content - view)
clamp_axis(origin, content, view) == Max(Min(origin, content - view), 0)

\* Viewport::clamp_view_origin
clamp_view_origin(vp, origin) ==
    Point(clamp_axis(origin.x, vp.content_size.width, vp.view_size.width),
          clamp_axis(origin.y, vp.content_size.height, vp.view_size.height))

(***************************************************************************)
(* A pass threads one record p through the calls it makes:                 *)
(*   p.port  the viewport, p.sc the scroll component,                      *)
(*   p.ctx   the context of the pass (EventCtx, LayoutCtx or any           *)
(*           ChangeCtx): is_handled, the scheduler's pending timers, and   *)
(*           observations of what the pass did,                            *)
(*   p.ret   the value returned by the last call.                          *)
(***************************************************************************)

\* Viewport::pan_to: move to the clamped origin; returns whether it changed
pan_to(p, origin) ==
    LET new_origin == clamp_view_origin(p.port, origin) IN
    [p EXCEPT !.port.view_origin = new_origin,
              !.ret = (new_origin # p.port.view_origin)]

\* Viewport::pan_by / ClipBox::pan_by
pan_by(p, delta) ==
    pan_to(p, Point(p.port.view_origin.x + delta.x, p.port.view_origin.y + delta.y))

\* Viewport::pan_to_on_axis / ClipBox::pan_to_on_axis
pan_to_on_axis(p, axis, position) ==
    IF axis = "Horizontal"
    THEN pan_to(p, Point(position, p.port.view_origin.y))
    ELSE pan_to(p, Point(p.port.view_origin.x, position))

\* the shift that brings val between the edges min and max, 0 if it is there
closest_on_axis(val, min, max) ==
    IF val > min /\ val < max THEN 0
    ELSE IF val <= min THEN val - min
    ELSE val - max

\* one axis of pan_to_visible: the target [t0, t1] is cut to the view's extent
\* from its near edge, then the larger of the two edge shifts is taken
visible_delta(t0, t1, v0, v1) ==
    LET c1 == t0 + Min(t1 - t0, v1 - v0)
        d0 == closest_on_axis(t0, v0, v1)
        d1 == closest_on_axis(c1, v0, v1)
    IN IF Abs(d0) > Abs(d1) THEN d0 ELSE d1

\* Viewport::pan_to_visible / ClipBox::pan_to_visible
pan_to_visible(p, rect) ==
    LET my_rect == view_rect(p.port)
        delta_x == visible_delta(rect.x0, rect.x1, my_rect.x0, my_rect.x1)
        delta_y == visible_delta(rect.y0, rect.y1, my_rect.y0, my_rect.y1)
    IN pan_to(p, Point(p.port.view_origin.x + delta_x, p.port.view_origin.y + delta_y))

\* Viewport::default_scroll_to_view_handling: the rectangle arrives in window
\* coordinates; the content's origin in the window is the widget's window
\* origin minus the scroll offset
default_scroll_to_view_handling(p, window_origin, global_highlight_rect) ==
    LET off == Vec2(window_origin.x - p.port.view_origin.x,
                    window_origin.y - p.port.view_origin.y)
        content_highlight_rect ==
            Rect(global_highlight_rect.x0 - off.x, global_highlight_rect.y0 - off.y,
                 global_highlight_rect.x1 - off.x, global_highlight_rect.y1 - off.y)
    IN pan_to_visible(p, content_highlight_rect)

----------------------------------------------------------------------------
(* Contexts: set_handled, is_handled, request_timer *)

\* a fresh context at the start of a pass
NewCtx(pending) ==
    [is_handled |-> FALSE,      \* ctx.is_handled()
     timers |-> pending,        \* tokens the scheduler holds
     fade_reset |-> FALSE,      \* observed: reset_scrollbar_fade ran in this pass
     bars_handled |-> FALSE,    \* observed: is_handled when scroll_component.event returned
     child_received |-> FALSE,  \* observed: the child subtree received the event
     marked |-> FALSE,          \* observed: Scroll::event itself called set_handled
     revalidated |-> FALSE,     \* observed: layout's zero-delta pan moved the origin
     snapped |-> FALSE,         \* observed: layout applied the snap pan
     trace |-> << >>]           \* observed: the callees of Scroll::event, in order

\* the token request_timer hands out: the lowest one not pending.  A fired
\* token never comes back, so reusing its number loses nothing.  With
\* MaxTimers tokens pending the model has none left (see Commit).
NewToken(pending) ==
    IF \E t \in 1..MaxTimers : t \notin pending
    THEN CHOOSE t \in 1..MaxTimers :
            t \notin pending /\ \A u \in 1..MaxTimers : u \notin pending => t <= u
    ELSE MaxTimers + 1

set_handled(p) == [p EXCEPT !.ctx.is_handled = TRUE]

Called(p, callee) == [p EXCEPT !.ctx.trace = Append(@, callee)]

----------------------------------------------------------------------------
(* ScrollComponent (spec.md 4.2) *)

ScrollbarsEnabledValues == {"None", "Vertical", "Horizontal", "Both"}
BarHeldValues == {"None", "Vertical", "Horizontal"}
OpacityValues == {"Hidden", "Visible", "FadingOut"}

\* TimerToken::INVALID
TimerTokenINVALID == 0

\* ScrollComponent::new: both bars enabled, nothing held, bars hidden, no timer
ScrollComponentNew ==
    [enabled |-> "Both", held |-> "None", opacity |-> "Hidden",
     timer_id |-> TimerTokenINVALID]

\* ScrollbarsEnabled::is_enabled(axis)
is_enabled(enabled, axis) == enabled = "Both" \/ enabled = axis

\* ScrollbarsEnabled::set_vertical_scrollbar_enabled
set_vertical_scrollbar_enabled(enabled, on) ==
    LET horizontal == is_enabled(enabled, "Horizontal") IN
    IF on THEN (IF horizontal THEN "Both" ELSE "Vertical")
    ELSE (IF horizontal THEN "Horizontal" ELSE "None")

\* ScrollbarsEnabled::set_horizontal_scrollbar_enabled
set_horizontal_scrollbar_enabled(enabled, on) ==
    LET vertical == is_enabled(enabled, "Vertical") IN
    IF on THEN (IF vertical THEN "Both" ELSE "Horizontal")
    ELSE (IF vertical THEN "Vertical" ELSE "None")

\* ScrollComponent::are_bars_held
are_bars_held(s) == s.held # "None"

\* ScrollComponent::reset_scrollbar_fade: the bars become visible and a new
\* fade-out timer is requested; its token replaces the one remembered
reset_scrollbar_fade(p) ==
    LET token == NewToken(p.ctx.timers) IN
    [p EXCEPT !.sc.opacity = "Visible",
              !.sc.timer_id = token,
              !.ctx.timers = @ \cup {token},
              !.ctx.fade_reset = TRUE]

\* whether content overflows the view on the axis of a bar
axis_scrollable(vp, axis) ==
    IF axis = "Horizontal" THEN vp.content_size.width > vp.view_size.width
    ELSE vp.content_size.height > vp.view_size.height

\* the origin a pointer at track position pos asks for: the position scaled by
\* content_size / view_size on the held bar's axis
drag_target(vp, axis, pos) ==
    LET content == IF axis = "Horizontal" THEN vp.content_size.width
                   ELSE vp.content_size.height
        view == IF axis = "Horizontal" THEN vp.view_size.width ELSE vp.view_size.height
    IN IF view > 0 THEN (pos * content) \div view ELSE 0

\* ScrollComponent::event: pointer and timer events of the bars
scroll_component_handle(p, event) ==
    CASE event.kind = "MouseDown" ->
            \* a press inside the track of an enabled bar of a scrollable axis
            IF /\ ~are_bars_held(p.sc)
               /\ event.bar # "None"
               /\ is_enabled(p.sc.enabled, event.bar)
               /\ axis_scrollable(p.port, event.bar)
            THEN set_handled([p EXCEPT !.sc.held = event.bar])
            ELSE p
      [] event.kind = "MouseMove" ->
            IF are_bars_held(p.sc)
            THEN LET q == pan_to_on_axis(p, p.sc.held,
                                         drag_target(p.port, p.sc.held, event.pos))
                 IN set_handled(IF q.ret THEN reset_scrollbar_fade(q) ELSE q)
            ELSE p
      [] event.kind = "MouseUp" ->
            IF are_bars_held(p.sc)
            THEN set_handled(reset_scrollbar_fade([p EXCEPT !.sc.held = "None"]))
            ELSE p
      [] event.kind = "Timer" ->
            \* only the timer of the current fade cycle starts the fade-out
            IF event.token = p.sc.timer_id
            THEN set_handled([p EXCEPT !.sc.opacity = "FadingOut",
                                       !.sc.timer_id = TimerTokenINVALID])
            ELSE p
      [] event.kind = "AnimFrame" ->
            IF p.sc.opacity = "FadingOut" /\ ~are_bars_held(p.sc)
            THEN [p EXCEPT !.sc.opacity = "Hidden"]
            ELSE p
      [] OTHER -> p

scroll_component_event(p, event) ==
    LET q == scroll_component_handle(Called(p, "scroll_component.event"), event) IN
    [q EXCEPT !.ctx.bars_handled = q.ctx.is_handled]

\* ScrollComponent::handle_scroll: a wheel event nobody handled becomes a pan
handle_scroll(p0, event) ==
    LET p == Called(p0, "scroll_component.handle_scroll") IN
    IF ~p.ctx.is_handled /\ event.kind = "Wheel"
    THEN LET q == pan_by(p, event.wheel_delta)
         IN IF q.ret THEN set_handled(reset_scrollbar_fade(q)) ELSE q
    ELSE p

----------------------------------------------------------------------------
(* ClipBox (spec.md 4.1): the child and its viewport *)

\* a bound no size of the model reaches (f64::INFINITY)
INFINITY == MaxWidth + MaxHeight + 1

\* the constraints ClipBox::layout passes to the child: an unconstrained axis
\* has no upper bound, a constrained one the container's; content_must_fill
\* adds the container's lower bound
child_constraints(bc, constrain_h, constrain_v, fill) ==
    BoxConstraints(IF fill THEN bc.min ELSE SizeZERO,
                   Size(IF constrain_h THEN bc.max.width ELSE INFINITY,
                        IF constrain_v THEN bc.max.height ELSE INFINITY))

\* the sizes a child may report under its constraints
ChildSizes(child_bc) ==
    { size \in Sizes :
        /\ child_bc.min.width <= size.width /\ size.width <= child_bc.max.width
        /\ child_bc.min.height <= size.height /\ size.height <= child_bc.max.height }

\* ClipBox::layout: records the child's size as content_size and the
\* constrained size as view_size, which it returns; the origin is left to
\* the owner (ClipBox::managed)
clip_layout(p, bc, child_size) ==
    LET view_size == bc_constrain(bc, child_size) IN
    [p EXCEPT !.port.content_size = child_size,
              !.port.view_size = view_size,
              !.ret = view_size]

\* ClipBox::event: forwards the event to the child subtree, which may handle it
clip_event(p0, event, child_handles) ==
    LET p == Called(p0, "clip.event") IN
    [p EXCEPT !.ctx.child_received = TRUE,
              !.ctx.is_handled = @ \/ child_handles]

----------------------------------------------------------------------------
(* Scroll: the public pan calls, scroll.rs 59-84 *)

\* scroll_by reporting a change whenever it was asked to move
scroll_by_reports_request(p, delta) ==
    [pan_by(p, delta) EXCEPT !.ret = (delta # Vec2ZERO)]

\* Scroll::scroll_by
scroll_by(p, delta) == pan_by(p, delta)

\* scroll_to always putting the region's corner at the view's corner
scroll_to_corner(p, region) == pan_to(p, Point(region.x0, region.y0))

\* Scroll::scroll_to
scroll_to(p, region) == pan_to_visible(p, region)

\* Scroll::scroll_to_on_axis
scroll_to_on_axis(p, axis, position) == pan_to_on_axis(p, axis, position)

----------------------------------------------------------------------------
(* Scroll: configuration, scroll.rs 50-57 and 88-172.                      *)
(* c is the configuration: which bars are enabled, the two constrain       *)
(* flags and must_fill of the clip.  The snap predicates are closures over *)
(* the data of a pass: what they return is an input of the layout pass.    *)

Config(enabled, cv, ch, fill) ==
    [enabled |-> enabled, constrain_vertical |-> cv, constrain_horizontal |-> ch,
     must_fill |-> fill]

\* Scroll::new with ClipBox::managed and ScrollComponent::new
Scroll_new == Config("Both", FALSE, FALSE, FALSE)

\* vertical() that forgets to lock the child's width
vertical_leaves_horizontal_free(c) ==
    [c EXCEPT !.enabled = "Vertical", !.constrain_vertical = FALSE]

\* Scroll::vertical
vertical(c) ==
    [c EXCEPT !.enabled = "Vertical",
              !.constrain_vertical = FALSE,
              !.constrain_horizontal = TRUE]

\* Scroll::horizontal
horizontal(c) ==
    [c EXCEPT !.enabled = "Horizontal",
              !.constrain_vertical = TRUE,
              !.constrain_horizontal = FALSE]

\* Scroll::set_content_must_fill, Scroll::content_must_fill
set_content_must_fill(c, fill) == [c EXCEPT !.must_fill = fill]

\* disabling the bars also locking both axes
disable_scrollbars_locks_axes(c) ==
    [c EXCEPT !.enabled = "None",
              !.constrain_vertical = TRUE,
              !.constrain_horizontal = TRUE]

\* Scroll::disable_scrollbars
disable_scrollbars(c) == [c EXCEPT !.enabled = "None"]

\* set_enabled_scrollbars refusing a bar on a constrained axis
set_enabled_scrollbars_checked(c, enabled) ==
    IF \/ c.constrain_vertical /\ is_enabled(enabled, "Vertical")
       \/ c.constrain_horizontal /\ is_enabled(enabled, "Horizontal")
    THEN c
    ELSE [c EXCEPT !.enabled = enabled]

\* Scroll::set_enabled_scrollbars
set_enabled_scrollbars(c, enabled) == [c EXCEPT !.enabled = enabled]

\* set_vertical_scroll_enabled leaving the bar as it was
set_vertical_scroll_enabled_flag_only(c, on) == [c EXCEPT !.constrain_vertical = ~on]

\* Scroll::set_vertical_scroll_enabled
set_vertical_scroll_enabled(c, on) ==
    [c EXCEPT !.constrain_vertical = ~on,
              !.enabled = set_vertical_scrollbar_enabled(@, on)]

\* Scroll::set_horizontal_scroll_enabled
set_horizontal_scroll_enabled(c, on) ==
    [c EXCEPT !.constrain_horizontal = ~on,
              !.enabled = set_horizontal_scrollbar_enabled(@, on)]

----------------------------------------------------------------------------
(* Scroll::event, scroll.rs 209-238 *)

\* the child given every event
event_child_always(p, event, child_handles) == clip_event(p, event, child_handles)

\* 214-216: the child gets the event only if the scrollbars left it unhandled
event_child(p, event, child_handles) ==
    IF ~p.ctx.is_handled THEN clip_event(p, event, child_handles) ELSE p

\* 225-226: the event is a notification that carries SCROLL_TO_VIEW
is_scroll_to_view(event) ==
    event.kind = "Notification" /\ event.selector = "SCROLL_TO_VIEW"

\* the fade reset on every request, moved or not
event_scroll_to_view_handle_always_fades(p, event, window_origin) ==
    reset_scrollbar_fade(
        default_scroll_to_view_handling(set_handled([p EXCEPT !.ctx.marked = TRUE]),
                                        window_origin, event.rect))

\* 227-233: handle the request, reset the fade if the viewport moved
event_scroll_to_view_handle(p, event, window_origin) ==
    LET handled == set_handled([p EXCEPT !.ctx.marked = TRUE])
        q == default_scroll_to_view_handling(handled, window_origin, event.rect)
    IN IF q.ret THEN reset_scrollbar_fade(q) ELSE q

\* the request handled whether or not a bar is held
event_scroll_to_view_while_held(p, event, window_origin) ==
    IF is_scroll_to_view(event)
    THEN event_scroll_to_view_handle(p, event, window_origin)
    ELSE p

\* 223-236: only while no bar is held
event_scroll_to_view(p, event, window_origin) ==
    IF ~are_bars_held(p.sc)
    THEN IF is_scroll_to_view(event)
         THEN event_scroll_to_view_handle(p, event, window_origin)
         ELSE p
    ELSE p

\* 218-237: the second with_port block
event_after_child(p, event, window_origin) ==
    event_scroll_to_view(handle_scroll(p, event), event, window_origin)

\* the event never offered to the scrollbars
Scroll_event_without_bars(p, event, window_origin, child_handles) ==
    event_after_child(
        event_child(Called(p, "scroll_component.event"), event, child_handles),
        event, window_origin)

\* the wheel handled before the child sees the event
Scroll_event_scroll_first(p, event, window_origin, child_handles) ==
    event_scroll_to_view(
        event_child(handle_scroll(scroll_component_event(p, event), event),
                    event, child_handles),
        event, window_origin)

\* Scroll::event
Scroll_event(p, event, window_origin, child_handles) ==
    event_after_child(
        event_child(scroll_component_event(p, event), event, child_handles),
        event, window_origin)

----------------------------------------------------------------------------
(* Scroll::layout, scroll.rs 252-288 *)

\* layout without the zero-delta scroll_by
layout_revalidate_skipped(p) == p

\* layout going back to the origin instead of clamping
layout_revalidate_to_origin(p) ==
    LET q == pan_to(p, PointORIGIN) IN
    [q EXCEPT !.ctx.revalidated = q.ret]

\* 262-264: the zero-delta scroll_by that makes the offset valid again
layout_revalidate(p) ==
    LET q == scroll_by(p, Vec2ZERO) IN
    [q EXCEPT !.ctx.revalidated = q.ret]

\* layout never resetting the fade
layout_resized_ignored(p, old_self_size, self_size) == p

\* layout resetting the fade in every pass
layout_resized_always(p, old_self_size, self_size) == reset_scrollbar_fade(p)

\* 265-268: a changed container size resets the fade
layout_resized(p, old_self_size, self_size) ==
    IF old_self_size # self_size THEN reset_scrollbar_fade(p) ELSE p

\* the distance taken on both axes as soon as one predicate holds
snap_distance_both_axes(viewport, snap_v, snap_h) ==
    Vec2(viewport.content_size.width
           - (viewport.view_origin.x + viewport.view_size.width),
         viewport.content_size.height
           - (viewport.view_origin.y + viewport.view_size.height))

\* 273-282: the distance from the far edge of the view to that of the content
snap_distance(viewport, snap_v, snap_h) ==
    Vec2(IF snap_h
         THEN viewport.content_size.width
              - (viewport.view_origin.x + viewport.view_size.width)
         ELSE 0,
         IF snap_v
         THEN viewport.content_size.height
              - (viewport.view_origin.y + viewport.view_size.height)
         ELSE 0)

\* the snap asking for both predicates
snap_condition_both(p, old_content_size, snap_v, snap_h) ==
    (snap_v /\ snap_h) /\ p.port.content_size # old_content_size

\* the snap in every pass in which a predicate holds
snap_condition_any_pass(p, old_content_size, snap_v, snap_h) == snap_v \/ snap_h

\* 270-271: a predicate holds and the content size changed in this pass
snap_condition(p, old_content_size, snap_v, snap_h) ==
    (snap_v \/ snap_h) /\ p.port.content_size # old_content_size

\* 270-284
layout_snap(p, old_content_size, snap_v, snap_h) ==
    IF snap_condition(p, old_content_size, snap_v, snap_h)
    THEN [scroll_by(p, snap_distance(p.port, snap_v, snap_h))
            EXCEPT !.ctx.snapped = TRUE]
    ELSE p

\* layout returning the content's size instead of the constrained one
Scroll_layout_returns_content(p, bc, child_size, snap_v, snap_h) ==
    LET old_content_size == p.port.content_size
        old_self_size == p.port.view_size
        laid == clip_layout(p, bc, child_size)
        self_size == bc_constrain(bc, laid.ret)
        valid == layout_revalidate(laid)
        faded == layout_resized(valid, old_self_size, self_size)
        snapped == layout_snap(faded, old_content_size, snap_v, snap_h)
    IN [snapped EXCEPT !.ret = snapped.port.content_size]

\* Scroll::layout; p.ret is the size it returns
Scroll_layout(p, bc, child_size, snap_v, snap_h) ==
    LET old_content_size == p.port.content_size
        old_self_size == p.port.view_size
        laid == clip_layout(p, bc, child_size)
        self_size == bc_constrain(bc, laid.ret)
        valid == layout_revalidate(laid)
        faded == layout_resized(valid, old_self_size, self_size)
        snapped == layout_snap(faded, old_content_size, snap_v, snap_h)
    IN [snapped EXCEPT !.ret = self_size]

----------------------------------------------------------------------------
(* Scroll::lifecycle, Scroll::update, Scroll::paint, scroll.rs 241-249 and  *)
(* 291-295: each only forwards to the scroll component and the clip, which  *)
(* take neither the viewport's sizes and origin nor the scroll component's  *)
(* state from these passes (spec.md 4.1, 4.2, 4.3); Scroll itself assigns   *)
(* nothing.                                                                 *)

\* Scroll::lifecycle
Scroll_lifecycle(p) == Called(Called(p, "scroll_component.lifecycle"), "clip.lifecycle")

\* Scroll::update
Scroll_update(p) == Called(p, "clip.update")

\* Scroll::paint
Scroll_paint(p) == Called(Called(p, "clip.paint"), "scroll_component.draw_bars")

----------------------------------------------------------------------------
(* Inputs *)

Deltas == (0 - MaxDelta)..MaxDelta
\* pan deltas of scroll_by and of wheel events
PanDeltas == { Vec2(dx, dy) : dx \in Deltas, dy \in Deltas }

\* target rectangles, with edges up to the largest content size
Rects ==
    { Rect(x0, y0, x1, y1) : x0 \in Widths, y0 \in Heights, x1 \in Widths, y1 \in Heights }
ValidRects == { r \in Rects : r.x0 <= r.x1 /\ r.y0 <= r.y1 }

\* positions scroll_to_on_axis is asked for, and pointer positions on a track
Positions == (0 - 1)..(MaxHeight + 1)
TrackPositions == 0..MaxHeight

\* where the widget lies in its window
WindowOrigins == { Point(0, 0), Point(0, 1) }

\* the viewports a layout pass followed by pans can leave
ValidViewports ==
    { Viewport(c, v, clamp_view_origin(Viewport(c, v, PointORIGIN), Point(x, y))) :
        c \in Sizes, v \in Sizes, x \in Widths, y \in Heights }

----------------------------------------------------------------------------
(* The state machine *)

CurrentConfig == Config(sc.enabled, constrain_vertical, constrain_horizontal, must_fill)

\* the pass record over the current state
Pass(pending) == [port |-> port, sc |-> sc, ctx |-> NewCtx(pending), ret |-> FALSE]

NoInput == [none |-> TRUE]

\* what the last call was.  With trace_inputs also: the kind of event or, for a
\* layout, what the snap predicates returned; what the call was given, the
\* viewport and the scroll component it started from, what it returned and
\* what the pass observed.
Last(op, kind, input, p) ==
    IF trace_inputs
    THEN [op |-> op, kind |-> kind, input |-> input,
          old_port |-> port, old_sc |-> sc, ret |-> p.ret,
          is_handled |-> p.ctx.is_handled, bars_handled |-> p.ctx.bars_handled,
          fade_reset |-> p.ctx.fade_reset,
          child_received |-> p.ctx.child_received, marked |-> p.ctx.marked,
          revalidated |-> p.ctx.revalidated, snapped |-> p.ctx.snapped,
          trace |-> p.ctx.trace]
    ELSE [op |-> op]

\* the state Scroll::new leaves
Constructed ==
    /\ port = Viewport(SizeZERO, SizeZERO, PointORIGIN)
    /\ constrain_horizontal = Scroll_new.constrain_horizontal
    /\ constrain_vertical = Scroll_new.constrain_vertical
    /\ must_fill = Scroll_new.must_fill
    /\ sc = [ScrollComponentNew EXCEPT !.enabled = Scroll_new.enabled]
    /\ timers = {}

Init ==
    /\ phase = "build"
    /\ trace_inputs = FALSE
    /\ Constructed
    /\ last = Last("new", "", NoInput, Pass({}))

\* a configuration call: c is the configuration it leaves
Configure(op, input, c) ==
    /\ sc' = [sc EXCEPT !.enabled = c.enabled]
    /\ constrain_vertical' = c.constrain_vertical
    /\ constrain_horizontal' = c.constrain_horizontal
    /\ must_fill' = c.must_fill
    /\ last' = Last(op, "", input, Pass(timers))
    /\ UNCHANGED << phase, port, timers, trace_inputs >>

\* a pass or a pan call: p is the pass record it ends with
Commit(op, kind, input, p) ==
    /\ port' = p.port
    /\ sc' = p.sc
    /\ p.ctx.timers \subseteq 1..MaxTimers
    /\ timers' = p.ctx.timers
    /\ last' = Last(op, kind, input, p)
    /\ UNCHANGED << phase, constrain_horizontal, constrain_vertical, must_fill,
                    trace_inputs >>

(* builder methods: they take the Scroll by value, before it is in the tree *)
Vertical == phase = "build" /\ Configure("vertical", NoInput, vertical(CurrentConfig))
Horizontal ==
    phase = "build" /\ Configure("horizontal", NoInput, horizontal(CurrentConfig))
ContentMustFill ==
    /\ phase = "build"
    /\ \E fill \in BOOLEAN :
         Configure("content_must_fill", [must_fill |-> fill],
                   set_content_must_fill(CurrentConfig, fill))
DisableScrollbars ==
    /\ phase = "build"
    /\ Configure("disable_scrollbars", NoInput, disable_scrollbars(CurrentConfig))

\* the finished Scroll is put into the widget tree
Install ==
    /\ phase = "build"
    /\ phase' = "run"
    /\ last' = Last("install", "", NoInput, Pass(timers))
    /\ UNCHANGED << port, constrain_horizontal, constrain_vertical, must_fill, sc,
                    timers, trace_inputs >>

(* setters: they take &mut self and can be called at any time *)
SetContentMustFill ==
    \E fill \in BOOLEAN :
        Configure("set_content_must_fill", [must_fill |-> fill],
                  set_content_must_fill(CurrentConfig, fill))
SetEnabledScrollbars ==
    \E enabled \in ScrollbarsEnabledValues :
        Configure("set_enabled_scrollbars", [enabled |-> enabled],
                  set_enabled_scrollbars(CurrentConfig, enabled))
SetVerticalScrollEnabled ==
    \E on \in BOOLEAN :
        Configure("set_vertical_scroll_enabled", [enabled |-> on],
                  set_vertical_scroll_enabled(CurrentConfig, on))
SetHorizontalScrollEnabled ==
    \E on \in BOOLEAN :
        Configure("set_horizontal_scroll_enabled", [enabled |-> on],
                  set_horizontal_scroll_enabled(CurrentConfig, on))

(* the public pan calls *)
ScrollBy ==
    /\ phase = "run"
    /\ \E delta \in PanDeltas :
         Commit("scroll_by", "", [delta |-> delta], scroll_by(Pass(timers), delta))
ScrollTo ==
    /\ phase = "run"
    /\ \E region \in ValidRects :
         Commit("scroll_to", "", [region |-> region], scroll_to(Pass(timers), region))
ScrollToOnAxis ==
    /\ phase = "run"
    /\ \E axis \in Axes, position \in Positions :
         Commit("scroll_to_on_axis", "", [axis |-> axis, position |-> position],
                scroll_to_on_axis(Pass(timers), axis, position))

(* the event pass, one action per kind of event *)
EventPass(kind, event, window_origin) ==
    /\ phase = "run"
    /\ \E child_handles \in BOOLEAN :
         Commit("event", kind,
                [event |-> event, window_origin |-> window_origin,
                 child_handles |-> child_handles],
                Scroll_event(Pass(timers), event, window_origin, child_handles))

MouseDown ==
    \E bar \in BarHeldValues :
        EventPass("MouseDown", [kind |-> "MouseDown", bar |-> bar], PointORIGIN)
MouseMove ==
    \E pos \in TrackPositions :
        EventPass("MouseMove", [kind |-> "MouseMove", pos |-> pos], PointORIGIN)
MouseUp == EventPass("MouseUp", [kind |-> "MouseUp"], PointORIGIN)
Wheel ==
    \E delta \in PanDeltas :
        EventPass("Wheel", [kind |-> "Wheel", wheel_delta |-> delta], PointORIGIN)
KeyDown == EventPass("KeyDown", [kind |-> "KeyDown"], PointORIGIN)
AnimFrame == EventPass("AnimFrame", [kind |-> "AnimFrame"], PointORIGIN)
ScrollToView ==
    \E rect \in ValidRects, window_origin \in WindowOrigins :
        EventPass("SCROLL_TO_VIEW",
                  [kind |-> "Notification", selector |-> "SCROLL_TO_VIEW", rect |-> rect],
                  window_origin)
OtherNotification ==
    EventPass("Notification", [kind |-> "Notification", selector |-> "OTHER"], PointORIGIN)

\* a pending timer fires: the scheduler drops the token and delivers the event.
\* The call is recorded as "timer" when the token is the one of the latest fade
\* reset, as "stale_timer" when a later reset has replaced it.
TimerFired ==
    /\ phase = "run"
    /\ \E token \in timers, child_handles \in BOOLEAN :
         LET event == [kind |-> "Timer", token |-> token] IN
         Commit(IF token = sc.timer_id THEN "timer" ELSE "stale_timer", "Timer",
                [event |-> event, window_origin |-> PointORIGIN,
                 child_handles |-> child_handles],
                Scroll_event(Pass(timers \ {token}), event, PointORIGIN, child_handles))

(* the layout pass; snap_v and snap_h are what the two snap predicates return
   for the data and the environment of the pass *)
Layout ==
    /\ phase = "run"
    /\ \E bc \in ValidBoxConstraints, snap_v \in BOOLEAN, snap_h \in BOOLEAN :
         \E child_size \in ChildSizes(child_constraints(bc, constrain_horizontal,
                                                         constrain_vertical, must_fill)) :
            Commit("layout",
                   IF snap_v THEN (IF snap_h THEN "snap_both" ELSE "snap_vertical")
                   ELSE (IF snap_h THEN "snap_horizontal" ELSE "snap_none"),
                   [bc |-> bc, child_size |-> child_size,
                    snap_v |-> snap_v, snap_h |-> snap_h],
                   Scroll_layout(Pass(timers), bc, child_size, snap_v, snap_h))

(* the passes that only forward to the clip and the scroll component *)
Lifecycle ==
    phase = "run" /\ Commit("lifecycle", "", NoInput, Scroll_lifecycle(Pass(timers)))
Update == phase = "run" /\ Commit("update", "", NoInput, Scroll_update(Pass(timers)))
Paint == phase = "run" /\ Commit("paint", "", NoInput, Scroll_paint(Pass(timers)))

(* a Scroll::new(child) container in the widget tree *)
Next ==
    \/ Install
    \/ ScrollBy \/ ScrollTo \/ ScrollToOnAxis
    \/ MouseDown \/ MouseMove \/ MouseUp \/ Wheel \/ KeyDown \/ AnimFrame
    \/ ScrollToView \/ OtherNotification \/ TimerFired
    \/ Layout

Spec == Init /\ [][Next]_vars

(***************************************************************************)
(* One pass or one call from any state the container can be in: every      *)
(* viewport a layout and pans can leave, with any bar held.  The call's    *)
(* inputs and observations are kept in last.                               *)
(***************************************************************************)
InitPass ==
    /\ phase = "run"
    /\ trace_inputs = TRUE
    /\ port \in ValidViewports
    /\ constrain_horizontal = Scroll_new.constrain_horizontal
    /\ constrain_vertical = Scroll_new.constrain_vertical
    /\ must_fill = Scroll_new.must_fill
    /\ \E held \in BarHeldValues :
         sc = [ScrollComponentNew EXCEPT !.enabled = Scroll_new.enabled, !.held = held]
    /\ timers = {}
    /\ last = Last("new", "", NoInput, Pass({}))

FirstCall == last.op = "new"

NextPass ==
    \/ FirstCall /\ ScrollBy
    \/ FirstCall /\ ScrollTo
    \/ FirstCall /\ ScrollToOnAxis
    \/ FirstCall /\ MouseDown
    \/ FirstCall /\ MouseMove
    \/ FirstCall /\ MouseUp
    \/ FirstCall /\ Wheel
    \/ FirstCall /\ KeyDown
    \/ FirstCall /\ AnimFrame
    \/ FirstCall /\ ScrollToView
    \/ FirstCall /\ OtherNotification
    \/ FirstCall /\ Layout

SpecPass == InitPass /\ [][NextPass]_vars

(***************************************************************************)
(* One call from any configuration: the setters take &mut self and can be  *)
(* called before and after the container is in the tree, so every          *)
(* combination of enabled bars, constrain flags and must_fill occurs with  *)
(* every viewport that layout and pans left behind under an earlier        *)
(* configuration.  A container still with its builder has never been laid  *)
(* out.                                                                    *)
(***************************************************************************)
Configs ==
    { Config(enabled, cv, ch, fill) :
        enabled \in ScrollbarsEnabledValues, cv \in BOOLEAN, ch \in BOOLEAN,
        fill \in BOOLEAN }

InitConfigPass ==
    /\ trace_inputs = TRUE
    /\ \/ phase = "build" /\ port = Viewport(SizeZERO, SizeZERO, PointORIGIN)
       \/ phase = "run" /\ port \in ValidViewports
    /\ \E c \in Configs :
         /\ constrain_horizontal = c.constrain_horizontal
         /\ constrain_vertical = c.constrain_vertical
         /\ must_fill = c.must_fill
         /\ sc = [ScrollComponentNew EXCEPT !.enabled = c.enabled]
    /\ timers = {}
    /\ last = Last("new", "", NoInput, Pass({}))

NextConfigPass ==
    \/ FirstCall /\ Vertical
    \/ FirstCall /\ Horizontal
    \/ FirstCall /\ ContentMustFill
    \/ FirstCall /\ DisableScrollbars
    \/ FirstCall /\ Install
    \/ FirstCall /\ SetContentMustFill
    \/ FirstCall /\ SetEnabledScrollbars
    \/ FirstCall /\ SetVerticalScrollEnabled
    \/ FirstCall /\ SetHorizontalScrollEnabled
    \/ FirstCall /\ ScrollBy
    \/ FirstCall /\ Wheel
    \/ FirstCall /\ Layout
    \/ FirstCall /\ Lifecycle
    \/ FirstCall /\ Update
    \/ FirstCall /\ Paint

SpecConfigPass == InitConfigPass /\ [][NextConfigPass]_vars

(***************************************************************************)
(* The configuration calls in any order from Scroll::new: the builder      *)
(* methods until the container is installed, the setters at any time.      *)
(***************************************************************************)
InitConfig ==
    /\ phase = "build"
    /\ trace_inputs = TRUE
    /\ Constructed
    /\ last = Last("new", "", NoInput, Pass({}))

NextConfig ==
    \/ Vertical \/ Horizontal \/ ContentMustFill \/ DisableScrollbars
    \/ Install
    \/ SetContentMustFill \/ SetEnabledScrollbars
    \/ SetVerticalScrollEnabled \/ SetHorizontalScrollEnabled

SpecConfig == InitConfig /\ [][NextConfig]_vars

----------------------------------------------------------------------------
(* Properties *)

AxisInRange(origin, content, view) == 0 <= origin /\ origin <= Max(0, content - view)

\* 0 <= origin <= max(0, content - view) on both axes
OriginInRange(origin, content_size, view_size) ==
    /\ AxisInRange(origin.x, content_size.width, view_size.width)
    /\ AxisInRange(origin.y, content_size.height, view_size.height)

\* the last call moved the viewport's origin
OriginChanged == port.view_origin # last.old_port.view_origin

IsEvent(kind) == last.op = "event" /\ last.kind = kind

\* C1. Clamp invariant: whatever the content size, the view size and the
\* requested pan, after every layout pass, every event pass and every
\* scroll_by, scroll_to and scroll_to_on_axis call the view origin satisfies
\* 0 <= origin <= max(0, content - view) on both axes.
C1_ClampInvariant ==
    OriginInRange(port.view_origin, port.content_size, port.view_size)

\* the content shrank under an origin at the old bottom: the layout pass
\* moved the origin up to the new bottom, still above zero
C1_Witness ==
    /\ last.op = "layout"
    /\ last.revalidated
    /\ port.content_size.height < last.old_port.content_size.height
    /\ port.view_origin.y = port.content_size.height - port.view_size.height
    /\ port.view_origin.y > 0
    /\ port.view_origin.y < last.old_port.view_origin.y

\* C2. The zero-delta pan of layout: an origin that is in range for the new
\* sizes is not moved by it (and stays where it was when no snap follows); an
\* origin that is out of range for the new sizes is moved, and the pass ends
\* with the origin in range: on each axis the smaller of the old origin and
\* max(0, content - view).
C2_RevalidateIdempotent ==
    last.op = "layout" =>
        LET old == last.old_port.view_origin
            max_x == Max(0, port.content_size.width - port.view_size.width)
            max_y == Max(0, port.content_size.height - port.view_size.height)
        IN /\ OriginInRange(old, port.content_size, port.view_size)
                => ~last.revalidated /\ (~last.snapped => port.view_origin = old)
           /\ ~OriginInRange(old, port.content_size, port.view_size)
                => last.revalidated
           /\ OriginInRange(port.view_origin, port.content_size, port.view_size)
           /\ ~last.snapped
                => port.view_origin = Point(Min(old.x, max_x), Min(old.y, max_y))

\* the view grew to the content's height while the origin was at the old
\* maximum: the pass put the origin's y back to 0 and left x alone
C2_Witness ==
    /\ last.op = "layout"
    /\ last.old_port.view_origin.y > 0
    /\ last.old_port.view_origin.y
         = last.old_port.content_size.height - last.old_port.view_size.height
    /\ port.content_size = last.old_port.content_size
    /\ port.view_size.height = port.content_size.height
    /\ last.revalidated
    /\ port.view_origin.y = 0
    /\ port.view_origin.x = last.old_port.view_origin.x

\* C3. Snap to the far edge: a layout pass in which the vertical snap
\* predicate returns true and the content size differs from the one before
\* the pass ends with origin.y = max(0, content height - view height),
\* whatever the offset was; the same for the horizontal predicate and x.
C3_SnapToFarEdge ==
    last.op = "layout" /\ port.content_size # last.old_port.content_size =>
        /\ last.input.snap_v
             => port.view_origin.y
                  = Max(0, port.content_size.height - port.view_size.height)
        /\ last.input.snap_h
             => port.view_origin.x
                  = Max(0, port.content_size.width - port.view_size.width)

\* the content grew under a view of the same height, the vertical predicate
\* alone held, and the origin went from the old bottom to the new one
C3_Witness ==
    /\ last.op = "layout"
    /\ last.input.snap_v /\ ~last.input.snap_h
    /\ port.view_size = last.old_port.view_size
    /\ port.view_size.height > 0
    /\ port.content_size.height > last.old_port.content_size.height
    /\ last.old_port.view_origin.y
         = last.old_port.content_size.height - last.old_port.view_size.height
    /\ port.view_origin.y = port.content_size.height - port.view_size.height
    /\ port.view_origin.y > last.old_port.view_origin.y

\* C4. Drag priority: in every event pass scroll_component.event is called
\* first; the child receives the event exactly when the scrollbar component
\* left it unhandled, and then right after it.
C4_DragPriority ==
    last.op = "event" =>
        /\ last.trace[1] = "scroll_component.event"
        /\ last.bars_handled => ~last.child_received
        /\ ~last.bars_handled => last.child_received
        /\ last.child_received <=> last.trace[2] = "clip.event"

\* a pointer-move while a bar is held moved the origin, was handled by the
\* scrollbar component and did not reach the child
C4_Witness ==
    /\ IsEvent("MouseMove")
    /\ are_bars_held(last.old_sc)
    /\ OriginChanged
    /\ last.bars_handled
    /\ ~last.child_received

\* C5. While a bar is held, a scroll-to-view notification is not acted on: the
\* viewport is unchanged, the fade is not reset, and the container does not
\* mark the notification handled (it is handled only if the child did so).
C5_HeldSuppressesScrollToView ==
    IsEvent("SCROLL_TO_VIEW") /\ are_bars_held(sc) =>
        /\ port = last.old_port
        /\ ~last.fade_reset
        /\ sc = last.old_sc
        /\ ~last.marked
        /\ last.is_handled <=> last.input.child_handles

\* a bar is held and the request names a rectangle the viewport would have
\* moved to
C5_Witness ==
    /\ IsEvent("SCROLL_TO_VIEW")
    /\ are_bars_held(sc)
    /\ ~last.input.child_handles
    /\ ~last.is_handled
    /\ default_scroll_to_view_handling(
           [port |-> last.old_port, sc |-> last.old_sc, ctx |-> NewCtx({}), ret |-> FALSE],
           last.input.window_origin, last.input.event.rect).ret

\* the target of the last scroll-to-view request in content coordinates: the
\* window rectangle moved by the scroll offset less the widget's window origin
TargetInContent ==
    LET dx == last.old_port.view_origin.x - last.input.window_origin.x
        dy == last.old_port.view_origin.y - last.input.window_origin.y
        r == last.input.event.rect
    IN Rect(r.x0 + dx, r.y0 + dy, r.x1 + dx, r.y1 + dy)

\* one axis of bringing the target [t0, t1] into a view of extent v by the
\* smallest pan from origin o0 to o1: a target that fits ends inside the view,
\* at the position nearest to where the view was; a larger one has its near
\* edge at the view's near edge
AxisShown(t0, t1, o0, o1, v) ==
    /\ t1 - t0 <= v => o1 <= t0 /\ t1 <= o1 + v /\ o1 = Max(t1 - v, Min(o0, t0))
    /\ t1 - t0 > v => o1 = t0
    /\ (o0 <= t0 /\ t1 <= o0 + v) => o1 = o0

\* the target lies within the content on one axis
AxisWithinContent(t0, t1, content) == 0 <= t0 /\ t1 <= content

\* both axes of AxisShown for rectangle r, each for a target within the
\* content on that axis if within_content is asked for
RectShown(r, within_content) ==
    /\ (within_content => AxisWithinContent(r.x0, r.x1, port.content_size.width))
         => AxisShown(r.x0, r.x1, last.old_port.view_origin.x, port.view_origin.x,
                      port.view_size.width)
    /\ (within_content => AxisWithinContent(r.y0, r.y1, port.content_size.height))
         => AxisShown(r.y0, r.y1, last.old_port.view_origin.y, port.view_origin.y,
                      port.view_size.height)

PanCalls == {"scroll_by", "scroll_to", "scroll_to_on_axis"}

\* C7 as stated: every pan that changed the offset, the public calls and the
\* pans inside layout included, and every container resize restarts the fade
\* timer.
C7_EveryPanResetsFade ==
    last.op \in PanCalls \cup {"event", "layout"} =>
        (OriginChanged \/ port.view_size # last.old_port.view_size => last.fade_reset)

\* C7, amended. The fade timer is restarted by an event pass that changed the
\* offset (wheel, scrollbar drag, scroll-to-view request) and by a layout pass
\* that changed the container size, and by a layout pass only then; scroll_by,
\* scroll_to and scroll_to_on_axis never restart it.  A restart leaves the bars
\* visible and the new timer pending.
C7_FadeReset ==
    /\ last.op = "event" /\ OriginChanged => last.fade_reset
    /\ last.op = "layout"
         => (last.fade_reset <=> port.view_size # last.old_port.view_size)
    /\ last.op \in PanCalls => ~last.fade_reset /\ sc = last.old_sc
    /\ last.op \in PanCalls \cup {"event", "layout"} /\ last.fade_reset
         => sc.opacity = "Visible" /\ sc.timer_id \in timers

\* a layout pass changed the container size, left the offset alone and
\* restarted the fade
C7_Witness ==
    /\ last.op = "layout"
    /\ port.view_size # last.old_port.view_size
    /\ ~OriginChanged
    /\ last.fade_reset
    /\ sc.timer_id \in timers

\* C8 as stated: after scroll_to(R), on each axis where R fits the view the
\* view contains R, on each axis where R is larger the near edges are aligned,
\* and the pan is zero on an axis where R was already contained.
C8_ScrollToContains ==
    last.op = "scroll_to" => RectShown(last.input.region, FALSE)

\* C8, amended. The same, on each axis where R lies within the content
\* (0 <= R's near edge and R's far edge <= content size); scroll_to returns
\* whether the origin changed.
C8_ScrollToContainsWithinContent ==
    last.op = "scroll_to" =>
        /\ RectShown(last.input.region, TRUE)
        /\ last.ret <=> OriginChanged

\* scroll_to moved the view down by the least distance that shows a region
\* which fits the view and lay below it
C8_Witness ==
    /\ last.op = "scroll_to"
    /\ last.ret
    /\ LET r == last.input.region IN
         /\ r.y1 - r.y0 <= port.view_size.height
         /\ r.y1 - r.y0 > 0
         /\ r.y1 <= port.content_size.height
         /\ r.y1 > last.old_port.view_origin.y + port.view_size.height
         /\ port.view_origin.y = r.y1 - port.view_size.height
         /\ port.view_origin.y > last.old_port.view_origin.y

\* C9. scroll_by and scroll_to_on_axis return true if and only if the clamped
\* origin after the call differs from the origin before it.
C9_ReturnsChanged ==
    last.op \in {"scroll_by", "scroll_to_on_axis"} => (last.ret <=> OriginChanged)

\* a non-zero downward pan at the bottom extreme is absorbed by the clamp and
\* scroll_by returns false
C9_Witness ==
    /\ last.op = "scroll_by"
    /\ last.input.delta.y > 0
    /\ last.input.delta.x = 0
    /\ last.old_port.view_origin.y > 0
    /\ last.old_port.view_origin.y = port.content_size.height - port.view_size.height
    /\ ~OriginChanged
    /\ last.ret = FALSE

\* C10. Nested-scroll preference: in every event pass handle_scroll is called
\* after scroll_component.event and after the child (when the child gets the
\* event), and a wheel event the child marked handled leaves the origin alone.
C10_ChildScrollsFirst ==
    last.op = "event" =>
        /\ last.trace = IF last.child_received
                        THEN << "scroll_component.event", "clip.event",
                                "scroll_component.handle_scroll" >>
                        ELSE << "scroll_component.event",
                                "scroll_component.handle_scroll" >>
        /\ (last.kind = "Wheel" /\ last.child_received /\ last.input.child_handles)
             => ~OriginChanged /\ ~last.fade_reset

\* the child handled a wheel event whose delta the container could have
\* applied; with the child leaving it alone the container applies it
C10_Witness ==
    /\ IsEvent("Wheel")
    /\ last.child_received
    /\ last.input.child_handles
    /\ ~OriginChanged
    /\ pan_by([port |-> last.old_port, sc |-> last.old_sc, ctx |-> NewCtx({}),
               ret |-> FALSE],
              last.input.event.wheel_delta).ret

WidgetPasses == {"event", "lifecycle", "update", "layout", "paint"}

\* C12. Axis restriction: whatever the configuration was, vertical() leaves
\* only the vertical bar enabled, the vertical axis unconstrained and the
\* horizontal axis constrained, and horizontal() the mirror image, so the last
\* of the two calls determines all three settings; a layout under a
\* constrained axis keeps the child within the container on that axis; and no
\* event, lifecycle, update, layout or paint pass changes the settings.
C12_AxisRestriction ==
    [][/\ last'.op = "vertical"
            => /\ sc'.enabled = "Vertical"
               /\ ~constrain_vertical' /\ constrain_horizontal'
               /\ must_fill' = must_fill
       /\ last'.op = "horizontal"
            => /\ sc'.enabled = "Horizontal"
               /\ constrain_vertical' /\ ~constrain_horizontal'
               /\ must_fill' = must_fill
       /\ last'.op = "layout"
            => /\ constrain_horizontal
                    => /\ port'.content_size.width <= last'.input.bc.max.width
                       /\ port'.content_size.width <= port'.view_size.width
               /\ constrain_vertical
                    => /\ port'.content_size.height <= last'.input.bc.max.height
                       /\ port'.content_size.height <= port'.view_size.height
       /\ last'.op \in WidgetPasses => CurrentConfig' = CurrentConfig]_vars

\* vertical() called on a builder that horizontal() had configured
C12_Witness ==
    /\ last.op = "vertical"
    /\ last.old_sc.enabled = "Horizontal"
    /\ sc.enabled = "Vertical"
    /\ ~constrain_vertical /\ constrain_horizontal

\* C13. Which bars are drawn is independent of whether panning is permitted:
\* disable_scrollbars and set_enabled_scrollbars change nothing but the
\* enabled bars (constrain flags, must_fill, viewport, held bar and fade
\* state stay), and with the bars disabled scroll_by and a wheel event the
\* child left unhandled still move the origin by the delta, clamped.
C13_BarsIndependentOfPanning ==
    [][/\ last'.op \in {"disable_scrollbars", "set_enabled_scrollbars"}
            => /\ UNCHANGED << constrain_vertical, constrain_horizontal, must_fill,
                               port, timers >>
               /\ sc' = [sc EXCEPT !.enabled = IF last'.op = "disable_scrollbars"
                                                THEN "None"
                                                ELSE last'.input.enabled]
       /\ sc.enabled = "None" /\ last'.op = "scroll_by"
            => /\ port'.view_origin
                    = clamp_view_origin(port,
                          Point(port.view_origin.x + last'.input.delta.x,
                                port.view_origin.y + last'.input.delta.y))
               /\ last'.ret = (port'.view_origin # port.view_origin)
       /\ (/\ sc.enabled = "None"
           /\ last'.op = "event" /\ last'.kind = "Wheel"
           /\ ~last'.input.child_handles)
            => /\ port'.view_origin
                    = clamp_view_origin(port,
                          Point(port.view_origin.x + last'.input.event.wheel_delta.x,
                                port.view_origin.y + last'.input.event.wheel_delta.y))
               /\ last'.is_handled = (port'.view_origin # port.view_origin)]_vars

\* with both bars disabled a wheel event moved the origin down
C13_Witness ==
    /\ IsEvent("Wheel")
    /\ last.old_sc.enabled = "None"
    /\ sc.enabled = "None"
    /\ last.input.event.wheel_delta.y > 0
    /\ port.view_origin.y > last.old_port.view_origin.y
    /\ last.is_handled

\* the request enables a bar on an axis whose scrolling is disabled
Malformed(enabled) ==
    \/ constrain_vertical /\ is_enabled(enabled, "Vertical")
    \/ constrain_horizontal /\ is_enabled(enabled, "Horizontal")

\* C14 as stated: set_enabled_scrollbars with a bar on an axis whose scrolling
\* is disabled leaves the configuration as it was.
C14_MalformedIsNoOp ==
    [][last'.op = "set_enabled_scrollbars" /\ Malformed(last'.input.enabled)
            => CurrentConfig' = CurrentConfig]_vars

\* C14, amended. set_vertical_scroll_enabled(false) constrains the vertical
\* axis and disables the vertical bar, and set_enabled_scrollbars stores the
\* value it is given whatever the constrain flags are, so a bar can be enabled
\* on an axis whose scrolling is disabled; the constrain flags and must_fill
\* are left as they were.
C14_SetEnabledScrollbarsStores ==
    [][/\ last'.op = "set_vertical_scroll_enabled" /\ ~last'.input.enabled
            => constrain_vertical' /\ ~is_enabled(sc'.enabled, "Vertical")
       /\ last'.op = "set_enabled_scrollbars"
            => /\ sc'.enabled = last'.input.enabled
               /\ UNCHANGED << constrain_vertical, constrain_horizontal, must_fill >>]_vars

\* both bars enabled by set_enabled_scrollbars while the vertical axis is
\* constrained and the vertical bar was disabled
C14_Witness ==
    /\ last.op = "set_enabled_scrollbars"
    /\ last.input.enabled = "Both"
    /\ last.old_sc.enabled = "Horizontal"
    /\ constrain_vertical /\ ~constrain_horizontal
    /\ sc.enabled = "Both"

\* on each axis the bar is enabled exactly when the axis is not constrained
BarsMatchAxes ==
    /\ is_enabled(sc.enabled, "Vertical") <=> ~constrain_vertical
    /\ is_enabled(sc.enabled, "Horizontal") <=> ~constrain_horizontal

\* the calls that keep bars and axes in step
AxisCalls ==
    {"vertical", "horizontal", "set_vertical_scroll_enabled",
     "set_horizontal_scroll_enabled"}

\* C20. Configuration invariant: Scroll::new leaves each bar enabled exactly
\* when its axis is not constrained; vertical(), horizontal(),
\* set_vertical_scroll_enabled and set_horizontal_scroll_enabled keep it so
\* (vertical() and horizontal() even establish it); and the correspondence is
\* lost only by disable_scrollbars or set_enabled_scrollbars.
C20_BarsFollowAxes ==
    /\ BarsMatchAxes
    /\ [][/\ BarsMatchAxes /\ last'.op \in AxisCalls => BarsMatchAxes'
          /\ last'.op \in {"vertical", "horizontal"} => BarsMatchAxes'
          /\ BarsMatchAxes /\ ~BarsMatchAxes'
               => last'.op \in {"disable_scrollbars", "set_enabled_scrollbars"}]_vars

\* set_vertical_scroll_enabled(false) on a container with both bars: the
\* vertical axis is constrained and only the horizontal bar is left
C20_Witness ==
    /\ last.op = "set_vertical_scroll_enabled"
    /\ ~last.input.enabled
    /\ last.old_sc.enabled = "Both"
    /\ sc.enabled = "Horizontal"
    /\ constrain_vertical /\ ~constrain_horizontal
    /\ BarsMatchAxes

\* size a lies within sizes lo and hi on both axes
SizeWithin(a, lo, hi) ==
    /\ lo.width <= a.width /\ a.width <= hi.width
    /\ lo.height <= a.height /\ a.height <= hi.height

\* C15. layout returns the box constraints applied to the child's size: the
\* returned size lies within the constraints' min and max on both axes, is
\* the view size the pass recorded, is the child's size wherever that lies
\* within the constraints, and is the same whether or not the re-clamp or
\* the snap moved the origin.
C15_LayoutReturnsConstrained ==
    last.op = "layout" =>
        LET bc == last.input.bc
            child_size == last.input.child_size
        IN /\ last.ret = bc_constrain(bc, child_size)
           /\ SizeWithin(last.ret, bc.min, bc.max)
           /\ last.ret = port.view_size
           /\ port.content_size = child_size
           /\ SizeWithin(child_size, bc.min, bc.max) => last.ret = child_size

\* content taller than the constraints allow: layout returned the maximum
\* height, and the snap pan moved the origin in the same pass
C15_Witness ==
    /\ last.op = "layout"
    /\ last.input.child_size.height > last.input.bc.max.height
    /\ last.ret.height = last.input.bc.max.height
    /\ last.ret.height < port.content_size.height
    /\ last.snapped
    /\ OriginChanged

\* C17. Snap fires only on a content-size change: a layout pass that leaves
\* the content size as it was applies no snap pan, whatever the snap
\* predicates return; the origin is only re-clamped, so an origin that is in
\* range for the sizes of the pass stays where it was.
C17_NoSnapWithoutContentChange ==
    last.op = "layout" /\ port.content_size = last.old_port.content_size =>
        /\ ~last.snapped
        /\ port.view_origin = clamp_view_origin(port, last.old_port.view_origin)
        /\ OriginInRange(last.old_port.view_origin, port.content_size, port.view_size)
             => port.view_origin = last.old_port.view_origin

\* the vertical predicate held, the content kept its size, and an origin
\* above the bottom was left above the bottom
C17_Witness ==
    /\ last.op = "layout"
    /\ last.input.snap_v
    /\ port.content_size = last.old_port.content_size
    /\ port.view_size = last.old_port.view_size
    /\ port.view_origin.y < port.content_size.height - port.view_size.height
    /\ port.view_origin = last.old_port.view_origin
    /\ ~last.snapped

C19_LayoutFadeOnResize ==
    last.op = "layout" =>
        /\ last.fade_reset <=> last.ret # last.old_port.view_size
        /\ last.fade_reset
             => /\ sc.opacity = "Visible"
                /\ sc.timer_id # TimerTokenINVALID
                /\ timers = {sc.timer_id}
        /\ ~last.fade_reset => sc = last.old_sc /\ timers = {}

\* the first layout of a container, with a size that is not zero
C19_Witness ==
    /\ last.op = "layout"
    /\ last.old_port = Viewport(SizeZERO, SizeZERO, PointORIGIN)
    /\ last.ret # SizeZERO
    /\ last.fade_reset
    /\ sc.opacity = "Visible"

\* the content grew and the snap pan moved the origin while the container
\* kept its size: no fade reset
C19_WitnessNoReset ==
    /\ last.op = "layout"
    /\ last.ret = last.old_port.view_size
    /\ port.content_size # last.old_port.content_size
    /\ last.snapped /\ OriginChanged
    /\ ~last.fade_reset

\* C16. Stale fade timers are ignored: the firing of a timer that a later
\* fade reset has replaced changes neither the scroll component nor the
\* viewport; the firing of the timer of the latest reset starts the fade-out,
\* and nothing else does; and the bars become hidden only from the fade-out,
\* so only after the latest timer has fired with no reset since.
C16_StaleTimersIgnored ==
    [][/\ last'.op = "stale_timer"
            => sc' = sc /\ port' = port /\ timers' \subseteq timers
       /\ last'.op = "timer"
            => /\ sc'.opacity = "FadingOut"
               /\ sc'.timer_id = TimerTokenINVALID
               /\ timers' = timers \ {sc.timer_id}
       /\ sc'.opacity = "FadingOut" /\ sc.opacity # "FadingOut"
            => last'.op = "timer" /\ sc.timer_id \in timers
       /\ sc'.opacity = "Hidden" /\ sc.opacity # "Hidden"
            => sc.opacity = "FadingOut" /\ sc.timer_id = TimerTokenINVALID]_vars

\* the timer of an earlier reset has fired: the bars are still visible and
\* the timer of the latest reset is still pending
C16_Witness ==
    /\ last.op = "stale_timer"
    /\ sc.opacity = "Visible"
    /\ sc.timer_id \in timers

====
